---- MODULE Spec2Model ----
(***************************************************************************)
(* Model of the two scripts of eagles-claude-config:                       *)
(*   hooks/doc-blocker.py            the path gate                         *)
(*   skills/continuous-learning-v2/scripts/instinct-cli.py  the store CLI  *)
(*                                                                         *)
(* Strings that the code inspects character by character (the gate's path) *)
(* are sequences of one-character strings.  Confidence is fixed point, in  *)
(* hundredths (0.7 is 70).  A Python dict is a function whose domain is    *)
(* the set of keys it holds; a JSON object on disk is a set of <<key,      *)
(* value>> pairs, and json_loads / json_dumps convert between the two.     *)
(***************************************************************************)
EXTENDS Integers, Sequences, FiniteSets, TLC

VARIABLES
    gate_p,     \* doc-blocker: tool_input.file_path as read from stdin
    gate_pc,    \* doc-blocker: "start" or "exited" ("idle" where the gate is not run)
    gate_exit,  \* doc-blocker: exit status of the process (-1 while running)
    fs,         \* the files the CLI touches: path -> [exists, data]
    cmd,        \* the handler the last CLI invocation dispatched to
    out,        \* stdout of the last CLI invocation, a sequence of lines
    saved,      \* whether the last CLI invocation called save_instincts
    run,        \* scripted runs: [pc, S, arg]: the position of the run, the store it
                \* started from and the array its import read
    proc,       \* concurrent imports: per process its pc and locals
    hist        \* concurrent imports: [S0, events]: the store at the start and the
                \* loads and saves of the store file so far, in order

vars == <<gate_p, gate_pc, gate_exit, fs, cmd, out, saved, run, proc, hist>>

gateVars == <<gate_p, gate_pc, gate_exit>>
cliVars == <<fs, cmd, out, saved>>

(***************************************************************************)
(* Bounds of the model.                                                    *)
(***************************************************************************)
MaxFrags == 3      \* a gate path is made of at most this many fragments
MaxStore == 3      \* the store holds at most this many records
MaxFile == 2       \* an import file lists at most this many candidates
MaxReport == 4     \* status and evolve are tried on stores of at most this many records

Max(a, b) == IF a >= b THEN a ELSE b

RECURSIVE Flatten(_)
Flatten(ss) == IF ss = <<>> THEN <<>> ELSE Head(ss) \o Flatten(Tail(ss))

SeqsUpTo(S, n) == UNION {[1..k -> S] : k \in 0..n}

(***************************************************************************)
(* hooks/doc-blocker.py                                                    *)
(***************************************************************************)
\* the character that line 4 replaces by a slash
BackSlash == "\\"

\* str.replace('\\', '/')
ReplaceBackslash(s) == [i \in 1..Len(s) |-> IF s[i] = BackSlash THEN "/" ELSE s[i]]

\* str.endswith
EndsWith(s, suffix) ==
    /\ Len(s) >= Len(suffix)
    /\ SubSeq(s, Len(s) - Len(suffix) + 1, Len(s)) = suffix

\* a in p: is a a substring of p, scanning the start positions left to right
RECURSIVE FindFrom(_, _, _)
FindFrom(a, p, i) ==
    IF i + Len(a) - 1 > Len(p) THEN FALSE
    ELSE IF SubSeq(p, i, i + Len(a) - 1) = a THEN TRUE
    ELSE FindFrom(a, p, i + 1)

In(a, p) == FindFrom(a, p, 1)

DotMd == <<".", "m", "d">>

\* the allow list without its last entry
allowed_NoMemory ==
    << <<"/", "d", "o", "c", "s", "/">>,
       <<"C", "L", "A", "U", "D", "E">>,
       <<"R", "E", "A", "D", "M", "E">>,
       <<"C", "H", "A", "N", "G", "E", "L", "O", "G">>,
       <<"S", "K", "I", "L", "L">>,
       <<"r", "u", "l", "e", "s", "/">>,
       <<"a", "g", "e", "n", "t", "s", "/">> >>

allowed ==
    << <<"/", "d", "o", "c", "s", "/">>,
       <<"C", "L", "A", "U", "D", "E">>,
       <<"R", "E", "A", "D", "M", "E">>,
       <<"C", "H", "A", "N", "G", "E", "L", "O", "G">>,
       <<"S", "K", "I", "L", "L">>,
       <<"r", "u", "l", "e", "s", "/">>,
       <<"a", "g", "e", "n", "t", "s", "/">>,
       <<"m", "e", "m", "o", "r", "y", "/">> >>

\* the for loop over allowed: exit 0 at the first hit, fall through to exit 2
RECURSIVE AllowLoop(_, _)
AllowLoop(as, p) ==
    IF as = <<>> THEN 2
    ELSE IF In(Head(as), p) THEN 0
    ELSE AllowLoop(Tail(as), p)

\* the module body: the exit status for the file_path given on stdin
DocBlockerExit(file_path) ==
    LET p == ReplaceBackslash(file_path)
    IN  IF ~EndsWith(p, DotMd) THEN 0 ELSE AllowLoop(allowed, p)

\* the pieces the modelled paths are made of
Fragments ==
    { <<"/">>, <<BackSlash>>, <<"x">>, DotMd,
      <<"d", "o", "c", "s">>,
      <<"/", "d", "o", "c", "s">>,
      <<"r", "u", "l", "e", "s">>,
      <<"a", "g", "e", "n", "t", "s">>,
      <<"m", "e", "m", "o", "r", "y">>,
      <<"C", "L", "A", "U", "D", "E">>,
      <<"R", "E", "A", "D", "M", "E">>,
      <<"r", "e", "a", "d", "m", "e">>,
      <<"C", "H", "A", "N", "G", "E", "L", "O", "G">>,
      <<"S", "K", "I", "L", "L">> }

\* the paths of at most n fragments
GatePaths(n) == {Flatten(fr) : fr \in SeqsUpTo(Fragments, n)}

GateIdle ==
    /\ gate_p = <<>>
    /\ gate_pc = "idle"
    /\ gate_exit = -1

GateInit ==
    /\ gate_p \in GatePaths(MaxFrags)
    /\ gate_pc = "start"
    /\ gate_exit = -1

DocBlocker ==
    /\ gate_pc = "start"
    /\ gate_exit' = DocBlockerExit(gate_p)
    /\ gate_pc' = "exited"
    /\ UNCHANGED gate_p

(***************************************************************************)
(* skills/continuous-learning-v2/scripts/instinct-cli.py                   *)
(***************************************************************************)
StorePath == "instincts.json"        \* INSTINCTS_DIR / 'instincts.json'
ExportPath == "export-YYYYMMDD.json" \* the default output path of export

Paths == {StorePath, ExportPath}

NoFile == [exists |-> FALSE, data |-> <<>>]
File(data) == [exists |-> TRUE, data |-> data]

\* dict.get(k, default)
Get(d, k, default) == IF k \in DOMAIN d THEN d[k] ELSE default

\* d[k] = v
SetItem(d, k, v) == [f \in DOMAIN d \cup {k} |-> IF f = k THEN v ELSE d[f]]

\* json.dumps of a list of dicts: each dict becomes an object, a set of
\* <<key, value>> members
DictToObj(d) == {<<k, d[k]>> : k \in DOMAIN d}
json_dumps(instincts) == [i \in 1..Len(instincts) |-> DictToObj(instincts[i])]

\* json.loads of an array of objects
ObjToDict(o) == [k \in {m[1] : m \in o} |-> (CHOOSE m \in o : m[1] = k)[2]]
json_loads(text) == [i \in 1..Len(text) |-> ObjToDict(text[i])]

load_instincts(files) ==
    IF files[StorePath].exists THEN json_loads(files[StorePath].data) ELSE <<>>

\* a save that re-reads the file and keeps what it finds there
save_instincts_Merging(files, instincts) ==
    LET onDisk == load_instincts(files)
        ids == {onDisk[i]["id"] : i \in 1..Len(onDisk)}
    IN  [files EXCEPT ![StorePath] =
            File(json_dumps(onDisk \o SelectSeq(instincts, LAMBDA x : x["id"] \notin ids)))]

\* the files after save_instincts(instincts): the store is overwritten whole
save_instincts(files, instincts) ==
    [files EXCEPT ![StorePath] = File(json_dumps(instincts))]

\* the files after Path(output_path).write_text(json.dumps(instincts))
write_export(files, output_path, instincts) ==
    [files EXCEPT ![output_path] = File(json_dumps(instincts))]

(***************************************************************************)
(* status                                                                  *)
(***************************************************************************)
SortKey(x) == Get(x, "confidence", 0)

\* an insertion that puts x before the elements of equal key
RECURSIVE InsertDesc_Unstable(_, _)
InsertDesc_Unstable(x, s) ==
    IF s = <<>> THEN <<x>>
    ELSE IF SortKey(Head(s)) > SortKey(x)
         THEN <<Head(s)>> \o InsertDesc_Unstable(x, Tail(s))
    ELSE <<x>> \o s

\* insert x behind every element whose key is >= its own: with the elements
\* taken in list order this is sorted(..., reverse=True), which keeps equal
\* keys in their original order
RECURSIVE InsertDesc(_, _)
InsertDesc(x, s) ==
    IF s = <<>> THEN <<x>>
    ELSE IF SortKey(Head(s)) >= SortKey(x) THEN <<Head(s)>> \o InsertDesc(x, Tail(s))
    ELSE <<x>> \o s

RECURSIVE SortedDesc(_)
SortedDesc(s) ==
    IF s = <<>> THEN <<>>
    ELSE InsertDesc(s[Len(s)], SortedDesc(SubSeq(s, 1, Len(s) - 1)))

\* int(conf * 10), the number of '#' of the bar ('#' * n is empty for n < 0)
BarLen(conf) == Max(0, conf \div 10)

\* s[:n] of a pattern; the patterns of the model are shorter than any n used
Truncate(s, n) == IF Len(s) <= n THEN s ELSE SubSeq(s, 1, n)

StatusLine(i) ==
    [kind |-> "item", conf |-> Get(i, "confidence", 0),
     bar |-> BarLen(Get(i, "confidence", 0)), pattern |-> Truncate(i["pattern"], 60)]

\* the lines of the for loops that print one line per record
StatusLines(sorted) == [k \in 1..Len(sorted) |-> StatusLine(sorted[k])]

status_output(instincts) ==
    IF instincts = <<>> THEN << [kind |-> "none"] >>
    ELSE << [kind |-> "total", count |-> Len(instincts)] >>
         \o StatusLines(SortedDesc(instincts))

(***************************************************************************)
(* import                                                                  *)
(***************************************************************************)
\* a discount without the floor
Discount_NoFloor(inst) == Get(inst, "confidence", 50) - 10

\* the discount of line 45
Discount(inst) == Max(30, Get(inst, "confidence", 50) - 10)

\* a loop that replaces the stored record when the candidate's id is known
RECURSIVE ImportLoop_Overwrite(_, _, _, _)
ImportLoop_Overwrite(new_instincts, existing_ids, existing, added) ==
    IF new_instincts = <<>> THEN [existing |-> existing, added |-> added]
    ELSE LET inst == Head(new_instincts)
         IN  IF inst["id"] \notin existing_ids
             THEN ImportLoop_Overwrite(Tail(new_instincts), existing_ids,
                      Append(existing, SetItem(inst, "confidence", Discount(inst))),
                      added + 1)
             ELSE ImportLoop_Overwrite(Tail(new_instincts), existing_ids,
                      [i \in 1..Len(existing) |->
                          IF existing[i]["id"] = inst["id"] THEN inst ELSE existing[i]],
                      added)

\* a loop that puts the new records in front of the stored ones
RECURSIVE ImportLoop_Prepend(_, _, _, _)
ImportLoop_Prepend(new_instincts, existing_ids, existing, added) ==
    IF new_instincts = <<>> THEN [existing |-> existing, added |-> added]
    ELSE LET inst == Head(new_instincts)
         IN  IF inst["id"] \notin existing_ids
             THEN ImportLoop_Prepend(Tail(new_instincts), existing_ids,
                      <<SetItem(inst, "confidence", Discount(inst))>> \o existing,
                      added + 1)
             ELSE ImportLoop_Prepend(Tail(new_instincts), existing_ids, existing, added)

\* the for loop of import_instincts: existing_ids is computed once, before
\* the loop, and is not extended by the records the loop appends
RECURSIVE ImportLoop(_, _, _, _)
ImportLoop(new_instincts, existing_ids, existing, added) ==
    IF new_instincts = <<>> THEN [existing |-> existing, added |-> added]
    ELSE LET inst == Head(new_instincts)
         IN  IF inst["id"] \notin existing_ids
             THEN ImportLoop(Tail(new_instincts), existing_ids,
                             Append(existing, SetItem(inst, "confidence", Discount(inst))),
                             added + 1)
             ELSE ImportLoop(Tail(new_instincts), existing_ids, existing, added)

IdsOf(instincts) == {instincts[i]["id"] : i \in 1..Len(instincts)}

import_result(new_instincts, existing) ==
    ImportLoop(new_instincts, IdsOf(existing), existing, 0)

(***************************************************************************)
(* evolve                                                                  *)
(***************************************************************************)
RECURSIVE FilterStrong(_)
FilterStrong(s) ==
    IF s = <<>> THEN <<>>
    ELSE IF Get(Head(s), "confidence", 0) >= 70 THEN <<Head(s)>> \o FilterStrong(Tail(s))
    ELSE FilterStrong(Tail(s))

CategoryOf(i) == Get(i, "category", "general")

\* categories: the keys in insertion order, and the list of each key
RECURSIVE GroupKeys(_, _)
GroupKeys(strong, keys) ==
    IF strong = <<>> THEN keys
    ELSE LET cat == CategoryOf(Head(strong))
         IN  IF \E k \in 1..Len(keys) : keys[k] = cat
             THEN GroupKeys(Tail(strong), keys)
             ELSE GroupKeys(Tail(strong), Append(keys, cat))

RECURSIVE GroupItems(_, _)
GroupItems(strong, cat) ==
    IF strong = <<>> THEN <<>>
    ELSE IF CategoryOf(Head(strong)) = cat
         THEN <<Head(strong)>> \o GroupItems(Tail(strong), cat)
         ELSE GroupItems(Tail(strong), cat)

EvolveLine(item) ==
    [kind |-> "member", conf |-> item["confidence"],
     pattern |-> Truncate(item["pattern"], 50)]

EvolveLines(items) == [k \in 1..Len(items) |-> EvolveLine(items[k])]

\* a cluster of two is reported
ClusterOutput_Two(cat, items) ==
    IF Len(items) >= 2
    THEN << [kind |-> "cluster", category |-> cat, count |-> Len(items)] >>
         \o EvolveLines(items)
         \o << [kind |-> "recommend", skill |-> cat \o "-patterns.md"] >>
    ELSE <<>>

ClusterOutput(cat, items) ==
    IF Len(items) >= 3
    THEN << [kind |-> "cluster", category |-> cat, count |-> Len(items)] >>
         \o EvolveLines(items)
         \o << [kind |-> "recommend", skill |-> cat \o "-patterns.md"] >>
    ELSE <<>>

RECURSIVE EvolveLoop(_, _)
EvolveLoop(keys, strong) ==
    IF keys = <<>> THEN <<>>
    ELSE ClusterOutput(Head(keys), GroupItems(strong, Head(keys)))
         \o EvolveLoop(Tail(keys), strong)

evolve_output(instincts) ==
    LET strong == FilterStrong(instincts)
    IN  EvolveLoop(GroupKeys(strong, <<>>), strong)

(***************************************************************************)
(* The handlers: what one invocation does to the files, what it prints and *)
(* whether it calls save_instincts.                                        *)
(***************************************************************************)
\* a status that sorts the store in place and saves it
status_SavesSorted(files) ==
    [files |-> save_instincts(files, SortedDesc(load_instincts(files))),
     out |-> status_output(load_instincts(files)), saved |-> TRUE]

status(files) ==
    [files |-> files, out |-> status_output(load_instincts(files)), saved |-> FALSE]

\* an export of the strong records only
export_instincts_Strong(files, output_path) ==
    LET instincts == FilterStrong(load_instincts(files))
    IN  [files |-> write_export(files, output_path, instincts),
         out |-> << [kind |-> "exported", count |-> Len(instincts), path |-> output_path] >>,
         saved |-> FALSE]

export_instincts(files, output_path) ==
    LET instincts == load_instincts(files)
    IN  [files |-> write_export(files, output_path, instincts),
         out |-> << [kind |-> "exported", count |-> Len(instincts), path |-> output_path] >>,
         saved |-> FALSE]

import_instincts(files, new_instincts) ==
    LET existing == load_instincts(files)
        r == import_result(new_instincts, existing)
    IN  [files |-> save_instincts(files, r.existing),
         out |-> << [kind |-> "imported", added |-> r.added] >>,
         saved |-> TRUE]

evolve(files) ==
    [files |-> files, out |-> evolve_output(load_instincts(files)), saved |-> FALSE]

usage(files) ==
    [files |-> files, out |-> << [kind |-> "usage"] >>, saved |-> FALSE]

(***************************************************************************)
(* The command lines and the import files of the model.                    *)
(***************************************************************************)
ExternalPath == "candidates.json"    \* an import file that is not a file of the tool

Argvs ==
    { <<>>, <<"status">>, <<"export">>, <<"export", StorePath>>, <<"export", ExportPath>>,
      <<"import">>, <<"import", StorePath>>, <<"import", ExportPath>>,
      <<"import", ExternalPath>>, <<"evolve">>, <<"bogus">> }

\* the if / elif chain of __main__
Dispatch(argv) ==
    LET c == IF Len(argv) > 0 THEN argv[1] ELSE "status"
    IN  IF c = "status" THEN "status"
        ELSE IF c = "export" THEN "export"
        ELSE IF c = "import" /\ Len(argv) > 1 THEN "import"
        ELSE IF c = "evolve" THEN "evolve"
        ELSE "usage"

Rec(id, pattern) == [id |-> id, pattern |-> pattern]
RecC(id, pattern, conf) == [id |-> id, pattern |-> pattern, confidence |-> conf]
RecG(id, pattern, cat) == [id |-> id, pattern |-> pattern, category |-> cat]
RecCG(id, pattern, conf, cat) ==
    [id |-> id, pattern |-> pattern, confidence |-> conf, category |-> cat]

\* the candidate records an external import file may list
Candidates ==
    { RecCG("a", "mock the clock", 80, "testing"),
      Rec("a", "prefer fixtures"),
      RecCG("b", "small commits", 35, "general"),
      RecG("b", "name the test", "testing") }

CandidateFiles == SeqsUpTo(Candidates, MaxFile)

\* the stores an invocation may find: absent, empty, or written by the
\* observer that is not part of this repository
SeedStores ==
    { NoFile, File(<<>>),
      File(json_dumps(<< RecCG("a", "assert one thing", 90, "testing") >>)),
      File(json_dumps(<< RecG("b", "no score yet", "testing") >>)) }

\* json.loads(Path(input_path).read_text()): the arrays the file may hold
ReadArray(files, input_path) ==
    IF input_path = ExternalPath THEN CandidateFiles
    ELSE IF files[input_path].exists THEN {json_loads(files[input_path].data)}
    ELSE {}

CliIdle ==
    /\ fs = [p \in Paths |-> NoFile]
    /\ cmd = "none"
    /\ out = <<>>
    /\ saved = FALSE

RunIdle == run = [pc |-> "idle", S |-> <<>>, arg |-> <<>>]

ConcIdle ==
    /\ proc = <<>>
    /\ hist = <<>>

Run(c, r) ==
    /\ cmd' = c
    /\ fs' = r.files
    /\ out' = r.out
    /\ saved' = r.saved

Status ==
    /\ \E argv \in Argvs :
          /\ Dispatch(argv) = "status"
          /\ Run("status", status(fs))
    /\ UNCHANGED <<gateVars, run, proc, hist>>

Export ==
    /\ \E argv \in Argvs :
          /\ Dispatch(argv) = "export"
          /\ Run("export", export_instincts(fs, IF Len(argv) > 1 THEN argv[2] ELSE ExportPath))
    /\ UNCHANGED <<gateVars, run, proc, hist>>

Import ==
    /\ \E argv \in Argvs :
          /\ Dispatch(argv) = "import"
          /\ \E new_instincts \in ReadArray(fs, argv[2]) :
                \E r \in {import_instincts(fs, new_instincts)} :
                    /\ Len(r.files[StorePath].data) <= MaxStore   \* bound of the model
                    /\ Run("import", r)
    /\ UNCHANGED <<gateVars, run, proc, hist>>

Evolve ==
    /\ \E argv \in Argvs :
          /\ Dispatch(argv) = "evolve"
          /\ Run("evolve", evolve(fs))
    /\ UNCHANGED <<gateVars, run, proc, hist>>

Usage ==
    /\ \E argv \in Argvs :
          /\ Dispatch(argv) = "usage"
          /\ Run("usage", usage(fs))
    /\ UNCHANGED <<gateVars, run, proc, hist>>

Init ==
    /\ GateIdle
    /\ fs \in {[p \in Paths |-> IF p = StorePath THEN f ELSE NoFile] : f \in SeedStores}
    /\ cmd = "none"
    /\ out = <<>>
    /\ saved = FALSE
    /\ RunIdle
    /\ ConcIdle

Next == Status \/ Export \/ Import \/ Evolve \/ Usage

Spec == Init /\ [][Next]_vars

(***************************************************************************)
(* The gate alone.                                                         *)
(***************************************************************************)
InitGate ==
    /\ GateInit
    /\ CliIdle
    /\ RunIdle
    /\ ConcIdle

NextGate == DocBlocker /\ UNCHANGED <<cliVars, run, proc, hist>>

SpecGate == InitGate /\ [][NextGate]_vars

(***************************************************************************)
(* status and evolve as functions of the store: every store of at most     *)
(* MaxReport records over ReportRecords, and the absent store.             *)
(***************************************************************************)
ReportRecords ==
    { Rec("r1", "plain"), RecG("r2", "plain tests", "testing"),
      RecC("r3", "name things", 70), RecC("r4", "small commits", 90),
      RecCG("r5", "mock the clock", 69, "testing"), RecCG("r6", "assert one thing", 70, "testing"),
      RecCG("r7", "prefer fixtures", 90, "testing"), RecCG("r8", "read the diff", 70, "general"),
      RecCG("r9", "ask first", 95, "other") }

ReportStores(n) == {NoFile} \cup {File(json_dumps(s)) : s \in SeqsUpTo(ReportRecords, n)}

InitReport ==
    /\ GateIdle
    /\ fs \in {[p \in Paths |-> IF p = StorePath THEN f ELSE NoFile] : f \in ReportStores(MaxReport)}
    /\ cmd = "none"
    /\ out = <<>>
    /\ saved = FALSE
    /\ RunIdle
    /\ ConcIdle

NextReport == Status \/ Evolve

SpecReport == InitReport /\ [][NextReport]_vars

(***************************************************************************)
(* One import, of any file over ImportCandidates into any store over       *)
(* ImportStoreRecords.                                                     *)
(***************************************************************************)
ImportCandidates ==
    Candidates \cup { RecC("c", "one idea per test", 40), RecC("a", "tiny", 5) }

ImportStoreRecords ==
    { RecCG("a", "assert one thing", 90, "testing"),
      RecG("b", "no score yet", "testing"),
      RecC("b", "small commits", 30) }

InitImport ==
    /\ GateIdle
    /\ \E S \in SeqsUpTo(ImportStoreRecords, MaxStore) :
          /\ fs \in { [p \in Paths |-> IF p = StorePath THEN f ELSE NoFile] :
                        f \in {File(json_dumps(S))} \cup (IF S = <<>> THEN {NoFile} ELSE {}) }
          /\ run = [pc |-> "import", S |-> S, arg |-> <<>>]
    /\ cmd = "none"
    /\ out = <<>>
    /\ saved = FALSE
    /\ ConcIdle

I_Import ==
    /\ run.pc = "import"
    /\ \E new_instincts \in SeqsUpTo(ImportCandidates, MaxFile) :
          /\ Run("import", import_instincts(fs, new_instincts))
          /\ run' = [run EXCEPT !.pc = "done", !.arg = new_instincts]
    /\ UNCHANGED <<gateVars, proc, hist>>

NextImport == I_Import

SpecImport == InitImport /\ [][NextImport]_vars

(***************************************************************************)
(* export, then import of the exported file into a fresh store.            *)
(***************************************************************************)
RoundTripRecords ==
    { RecC(i, "scored", c) : i \in {"a", "b"}, c \in {25, 40, 90} }
    \cup { RecCG(i, "scored", c, "testing") : i \in {"a", "b"}, c \in {25, 40, 90} }

RoundTripStores(n) == SeqsUpTo(RoundTripRecords, n)

InitRoundTrip ==
    /\ GateIdle
    /\ \E S \in RoundTripStores(MaxStore) :
          /\ fs = [p \in Paths |-> IF p = StorePath THEN File(json_dumps(S)) ELSE NoFile]
          /\ run = [pc |-> "export", S |-> S, arg |-> <<>>]
    /\ cmd = "none"
    /\ out = <<>>
    /\ saved = FALSE
    /\ ConcIdle

RT_Export ==
    /\ run.pc = "export"
    /\ Run("export", export_instincts(fs, ExportPath))
    /\ run' = [run EXCEPT !.pc = "fresh"]
    /\ UNCHANGED <<gateVars, proc, hist>>

\* the exported file is taken to an installation that has no store file yet
RT_Fresh ==
    /\ run.pc = "fresh"
    /\ fs' = [fs EXCEPT ![StorePath] = NoFile]
    /\ run' = [run EXCEPT !.pc = "import"]
    /\ UNCHANGED <<gateVars, cmd, out, saved, proc, hist>>

RT_Import ==
    /\ run.pc = "import"
    /\ \E new_instincts \in ReadArray(fs, ExportPath) :
          /\ Run("import", import_instincts(fs, new_instincts))
          /\ run' = [run EXCEPT !.pc = "done", !.arg = new_instincts]
    /\ UNCHANGED <<gateVars, proc, hist>>

NextRoundTrip == RT_Export \/ RT_Fresh \/ RT_Import

SpecRoundTrip == InitRoundTrip /\ [][NextRoundTrip]_vars

(***************************************************************************)
(* Two import invocations running as separate processes on one store file. *)
(* Each is: read the input file and load the store (lines 39-41), merge    *)
(* (lines 42-47), save and report (lines 48-49).                           *)
(***************************************************************************)
Procs == {1, 2}

ConcCandidates ==
    { RecC("a", "mock the clock", 80), RecC("b", "small commits", 35),
      Rec("c", "prefer fixtures"), RecC("b", "name the test", 90) }

ConcFiles(n) == SeqsUpTo(ConcCandidates, n)

ConcSeeds == { NoFile, File(json_dumps(<< RecC("a", "assert one thing", 90) >>)) }

NoLocals == [new_instincts |-> <<>>, existing |-> <<>>, existing_ids |-> {}, added |-> 0]

InitConc ==
    /\ GateIdle
    /\ fs \in {[p \in Paths |-> IF p = StorePath THEN f ELSE NoFile] : f \in ConcSeeds}
    /\ cmd = "none"
    /\ out = <<>>
    /\ saved = FALSE
    /\ RunIdle
    /\ proc = [i \in Procs |-> [pc |-> "start", loc |-> NoLocals]]
    /\ hist = [S0 |-> load_instincts(fs), events |-> <<>>]

C_Load(i) ==
    /\ proc[i].pc = "start"
    /\ \E new_instincts \in ConcFiles(MaxFile) :
          LET existing == load_instincts(fs)
          IN  proc' = [proc EXCEPT ![i] =
                  [pc |-> "loaded",
                   loc |-> [new_instincts |-> new_instincts, existing |-> existing,
                            existing_ids |-> IdsOf(existing), added |-> 0]]]
    /\ hist' = [hist EXCEPT !.events = Append(@, [op |-> "load", p |-> i])]
    /\ UNCHANGED <<gateVars, cliVars, run>>

C_Merge(i) ==
    /\ proc[i].pc = "loaded"
    /\ LET l == proc[i].loc
           r == ImportLoop(l.new_instincts, l.existing_ids, l.existing, l.added)
       IN  proc' = [proc EXCEPT ![i] =
               [pc |-> "merged",
                loc |-> [l EXCEPT !.existing = r.existing, !.added = r.added]]]
    /\ UNCHANGED <<gateVars, cliVars, run, hist>>

C_Save(i) ==
    /\ proc[i].pc = "merged"
    /\ fs' = save_instincts(fs, proc[i].loc.existing)
    /\ proc' = [proc EXCEPT ![i].pc = "done"]
    /\ out' = Append(out, [kind |-> "imported", added |-> proc[i].loc.added])
    /\ hist' = [hist EXCEPT !.events = Append(@, [op |-> "save", p |-> i])]
    /\ UNCHANGED <<gateVars, cmd, saved, run>>

NextConc == \E i \in Procs : C_Load(i) \/ C_Merge(i) \/ C_Save(i)

SpecConc == InitConc /\ [][NextConc]_vars

(***************************************************************************)
(* Properties.                                                             *)
(***************************************************************************)
Store == load_instincts(fs)

IsPrefix(s, t) == Len(s) <= Len(t) /\ \A i \in 1..Len(s) : t[i] = s[i]

\* the positions of the candidates of new that import is to append to S
NewPositions(new, S) == {k \in 1..Len(new) : \A i \in 1..Len(S) : S[i]["id"] # new[k]["id"]}

\* the confidence import is to give a candidate
Discounted(c) ==
    LET stated == IF "confidence" \in DOMAIN c THEN c["confidence"] ELSE 50
    IN  IF stated - 10 < 30 THEN 30 ELSE stated - 10

\* t is s followed by the candidates of new at the positions P, in file
\* order, each with its confidence discounted and nothing else changed
IsAppendOf(t, s, new, P) ==
    /\ Len(t) = Len(s) + Cardinality(P)
    /\ IsPrefix(s, t)
    /\ \A k \in P :
          LET r == t[Len(s) + Cardinality({j \in P : j <= k})]
          IN  /\ r["confidence"] = Discounted(new[k])
              /\ DOMAIN r = DOMAIN new[k] \cup {"confidence"}
              /\ \A f \in DOMAIN new[k] \ {"confidence"} : r[f] = new[k][f]

Occurs(a, p) ==
    \E i \in 1..(Len(p) - Len(a) + 1) : \A k \in 1..Len(a) : p[i + k - 1] = a[k]

Slashed(p) == [i \in 1..Len(p) |-> IF p[i] = BackSlash THEN "/" ELSE p[i]]

IsMd(p) ==
    /\ Len(p) >= 3
    /\ p[Len(p) - 2] = "." /\ p[Len(p) - 1] = "m" /\ p[Len(p)] = "d"

AllowList ==
    { <<"/", "d", "o", "c", "s", "/">>, <<"C", "L", "A", "U", "D", "E">>,
      <<"R", "E", "A", "D", "M", "E">>, <<"C", "H", "A", "N", "G", "E", "L", "O", "G">>,
      <<"S", "K", "I", "L", "L">>, <<"r", "u", "l", "e", "s", "/">>,
      <<"a", "g", "e", "n", "t", "s", "/">>, <<"m", "e", "m", "o", "r", "y", "/">> }

\* C1: the gate exits 0 for a path that does not end in '.md'; for a path
\* that does, it exits 0 exactly when an allow-list substring occurs in the
\* path (backslashes read as slashes) and 2 otherwise; no other exit code.
C1_GateDecision ==
    gate_pc = "exited" =>
        LET p == Slashed(gate_p)
        IN  /\ gate_exit \in {0, 2}
            /\ ~IsMd(p) => gate_exit = 0
            /\ IsMd(p) => (gate_exit = 0 <=> \E a \in AllowList : Occurs(a, p))

\* a '.md' path that is allowed only because its backslashes are read as
\* slashes, e.g. \docs\.md
C1_Witness ==
    /\ gate_pc = "exited"
    /\ gate_exit = 0
    /\ IsMd(gate_p)
    /\ ~\E a \in AllowList : Occurs(a, gate_p)

\* C2: an import of a file whose candidates all have ids already in the
\* store reports 0 additions and leaves the store's records, their order
\* and their fields as they were.
C2_ImportExistingAddsNothing ==
    (run.pc = "done" /\ \A k \in 1..Len(run.arg) : \E i \in 1..Len(run.S) :
                            run.S[i]["id"] = run.arg[k]["id"])
        => /\ out = << [kind |-> "imported", added |-> 0] >>
           /\ Store = run.S

\* such an import of a candidate whose fields differ from the stored record
C2_Witness ==
    /\ run.pc = "done"
    /\ run.arg # <<>>
    /\ \A k \in 1..Len(run.arg) : \E i \in 1..Len(run.S) :
          /\ run.S[i]["id"] = run.arg[k]["id"]
          /\ run.S[i] # run.arg[k]

\* C3: every record import appends has confidence max(30, c - 10), c being
\* the candidate's stated confidence or 50, hence at least 30; the number
\* reported is the number of records appended.
C3_DiscountAndCount ==
    run.pc = "done" =>
        LET P == NewPositions(run.arg, run.S)
        IN  /\ IsAppendOf(Store, run.S, run.arg, P)
            /\ \A j \in (Len(run.S) + 1)..Len(Store) : Store[j]["confidence"] >= 30
            /\ out = << [kind |-> "imported", added |-> Len(Store) - Len(run.S)] >>

\* an import that appended a candidate raised to the floor and one without
\* a stated confidence
C3_Witness ==
    /\ run.pc = "done"
    /\ \E k \in NewPositions(run.arg, run.S) :
          "confidence" \in DOMAIN run.arg[k] /\ run.arg[k]["confidence"] < 40
    /\ \E k \in NewPositions(run.arg, run.S) : "confidence" \notin DOMAIN run.arg[k]
    /\ Len(Store) = Len(run.S) + 2

\* C4: after export and import of the exported file into a fresh store,
\* every record of the exported store S has a record with its id and with
\* confidence max(30, original - 10), and the import reports Len(S).
C4_ExportImport ==
    run.pc = "done" =>
        /\ \A i \in 1..Len(run.S) : \E j \in 1..Len(Store) :
              /\ Store[j]["id"] = run.S[i]["id"]
              /\ Store[j]["confidence"] = Discounted(run.S[i])
        /\ out = << [kind |-> "imported", added |-> Len(run.S)] >>

\* a round trip of a store with a record above and a record below the floor
C4_Witness ==
    /\ run.pc = "done"
    /\ cmd = "import"
    /\ \E i \in 1..Len(run.S) : run.S[i]["confidence"] = 90
    /\ \E i \in 1..Len(run.S) : run.S[i]["confidence"] = 25
    /\ Len(Store) = MaxStore

\* C5: an evolve or status invocation leaves every file as it was (an
\* absent store stays absent) and does not call save_instincts.
C5_ReadOnly == [][cmd' \in {"status", "evolve"} => (fs' = fs /\ ~saved')]_vars

\* status or evolve has run on a store that holds records
C5_Witness ==
    /\ cmd \in {"status", "evolve"}
    /\ Len(Store) >= 2
    /\ Len(out) >= 2

StrongIn(s, c) ==
    {i \in 1..Len(s) :
        /\ "confidence" \in DOMAIN s[i] /\ s[i]["confidence"] >= 70
        /\ (IF "category" \in DOMAIN s[i] THEN s[i]["category"] ELSE "general") = c}

CategoryNames == {"general", "testing", "other"}

\* C6: evolve prints a cluster for category c iff at least 3 records have
\* confidence >= 70 and category c (none counting as 'general'); the count
\* printed is their number, the member lines are exactly those records in
\* store order, and the skill recommended is '<c>-patterns.md'.
C6_EvolveClusters ==
    cmd = "evolve" =>
        /\ \A c \in CategoryNames :
              (\E k \in 1..Len(out) : out[k].kind = "cluster" /\ out[k].category = c)
                  <=> Cardinality(StrongIn(Store, c)) >= 3
        /\ \A k \in 1..Len(out) : out[k].kind = "cluster" =>
              LET c == out[k].category
                  M == StrongIn(Store, c)
                  n == Cardinality(M)
              IN  /\ c \in CategoryNames
                  /\ out[k].count = n
                  /\ Len(out) >= k + n + 1
                  /\ \A i \in M :
                        LET line == out[k + Cardinality({j \in M : j <= i})]
                        IN  /\ line.kind = "member"
                            /\ line.conf = Store[i]["confidence"]
                            /\ line.pattern = Store[i]["pattern"]
                  /\ out[k + n + 1] = [kind |-> "recommend", skill |-> c \o "-patterns.md"]
                  /\ \A k2 \in 1..Len(out) :
                        (out[k2].kind = "cluster" /\ out[k2].category = c) => k2 = k
        /\ Len(out) = Cardinality({k \in 1..Len(out) : out[k].kind = "cluster"}) * 2
                      + Cardinality({k \in 1..Len(out) : out[k].kind = "member"})
        /\ \A k \in 1..Len(out) : out[k].kind \in {"cluster", "member", "recommend"}

\* the example of the specification: three strong 'testing' records make a
\* cluster, a strong 'other' record alone makes none
C6_Witness ==
    /\ cmd = "evolve"
    /\ Cardinality(StrongIn(Store, "testing")) = 3
    /\ Cardinality(StrongIn(Store, "other")) = 1
    /\ Len(out) = 5

KeyOf(r) == IF "confidence" \in DOMAIN r THEN r["confidence"] ELSE 0

\* the number of records status is to list before record i
RankOf(s, i) ==
    Cardinality({j \in 1..Len(s) : KeyOf(s[j]) > KeyOf(s[i]) \/ (KeyOf(s[j]) = KeyOf(s[i]) /\ j < i)})

\* C7: status prints only the 'no instincts' message for an empty or absent
\* store; otherwise the total and one line per record, by non-increasing
\* confidence (none counting as 0), equal confidences in store order.
C7_StatusListing ==
    cmd = "status" =>
        IF Store = <<>>
        THEN out = << [kind |-> "none"] >>
        ELSE /\ Len(out) = Len(Store) + 1
             /\ out[1] = [kind |-> "total", count |-> Len(Store)]
             /\ \A i \in 1..Len(Store) :
                   LET line == out[2 + RankOf(Store, i)]
                   IN  /\ line.kind = "item"
                       /\ line.conf = KeyOf(Store[i])
                       /\ line.pattern = Store[i]["pattern"]
             /\ \A k \in 2..(Len(out) - 1) : out[k].conf >= out[k + 1].conf

\* a listing in which two records of equal confidence and different pattern
\* follow a record of higher confidence that the store holds behind them
C7_Witness ==
    /\ cmd = "status"
    /\ Len(Store) >= 3
    /\ \E i, j, h \in 1..Len(Store) :
          /\ i < j /\ j < h
          /\ KeyOf(Store[i]) = KeyOf(Store[j]) /\ Store[i]["pattern"] # Store[j]["pattern"]
          /\ KeyOf(Store[h]) > KeyOf(Store[i])

\* C8: the ids of the records of the store are pairwise distinct.
C8_IdsUnique ==
    \A i, j \in 1..Len(Store) : Store[i]["id"] = Store[j]["id"] => i = j

\* C9: the store before an invocation is a prefix of the store after it,
\* and only import makes the store longer.
C9_AppendOnly ==
    [][ /\ IsPrefix(load_instincts(fs), load_instincts(fs'))
        /\ Len(load_instincts(fs')) > Len(load_instincts(fs)) => cmd' = "import" ]_vars

\* an import has appended to a store that held records, with an export file
\* written before it
C9_Witness ==
    /\ cmd = "import"
    /\ out = << [kind |-> "imported", added |-> 1] >>
    /\ Len(Store) >= 2
    /\ fs[ExportPath].exists

Events == hist.events
Done == \A i \in Procs : proc[i].pc = "done"
Other(i) == CHOOSE j \in Procs : j # i

\* both processes loaded before either saved
Raced == Len(Events) = 4 /\ Events[1].op = "load" /\ Events[2].op = "load"

\* one process ran to its end before the other began
OneAfterTheOther == Len(Events) = 4 /\ Events[1].op = "load" /\ Events[2].op = "save"

NewIdsOf(i) ==
    {proc[i].loc.new_instincts[k]["id"] : k \in NewPositions(proc[i].loc.new_instincts, hist.S0)}

DisjointNewIds == NewIdsOf(1) \cap NewIdsOf(2) = {}

StoreIds == {Store[k]["id"] : k \in 1..Len(Store)}

\* C10: two imports with disjoint new ids.  If both load before either
\* saves, the final store is what the last saver alone makes of the initial
\* store, and holds no record the other added, though the other reported
\* them.  If one runs after the other, the final store holds the additions
\* of both.
C10_LostUpdate ==
    (Done /\ DisjointNewIds) =>
        /\ Raced =>
              LET last == Events[4].p
                  lost == Other(last)
              IN  /\ IsAppendOf(Store, hist.S0, proc[last].loc.new_instincts,
                                NewPositions(proc[last].loc.new_instincts, hist.S0))
                  /\ NewIdsOf(lost) \cap StoreIds = {}
                  /\ proc[lost].loc.added =
                        Cardinality(NewPositions(proc[lost].loc.new_instincts, hist.S0))
        /\ OneAfterTheOther =>
              LET first == Events[1].p
                  second == Other(first)
                  P1 == NewPositions(proc[first].loc.new_instincts, hist.S0)
                  P2 == NewPositions(proc[second].loc.new_instincts, hist.S0)
                  mid == SubSeq(Store, 1, Len(hist.S0) + Cardinality(P1))
              IN  /\ Len(Store) = Len(hist.S0) + Cardinality(P1) + Cardinality(P2)
                  /\ IsAppendOf(mid, hist.S0, proc[first].loc.new_instincts, P1)
                  /\ IsAppendOf(Store, mid, proc[second].loc.new_instincts, P2)
                  /\ NewIdsOf(1) \cup NewIdsOf(2) \subseteq StoreIds
                  /\ proc[first].loc.added = Cardinality(P1)
                  /\ proc[second].loc.added = Cardinality(P2)

\* the race has happened and the additions one process reported are lost
C10_Witness ==
    /\ Done /\ DisjointNewIds /\ Raced
    /\ NewIdsOf(1) # {} /\ NewIdsOf(2) # {}
    /\ proc[Other(Events[4].p)].loc.added > 0
    /\ NewIdsOf(Other(Events[4].p)) \cap StoreIds = {}

====
